---- MODULE Spec2Model ----
(***************************************************************************)
(* Model of run.py: load bbb.json, group the records by the path of their  *)
(* `file` URL, count the cases per path (an empty case list counts as      *)
(* one), dump the table to out.json.                                       *)
(*                                                                         *)
(* Python strings are sequences of one-character strings.  Positions are   *)
(* 1-based, 0 meaning "not found" (Python: 0-based, -1).                   *)
(***************************************************************************)
EXTENDS Integers, Sequences, FiniteSets, TLC

\* ------------------------------------------------------------------ bounds
\* the longest input array
MaxRecords == 2
\* the longest `cases` value
MaxCases == 2
\* how many times the script is launched on the same bbb.json
MaxRuns == 2

\* ------------------------------------------------- str helpers (Python str)
\* str.find(c, start): the first position >= start holding c, 0 if none
RECURSIVE Find(_, _, _)
Find(str, c, start) ==
    IF start > Len(str) THEN 0
    ELSE IF str[start] = c THEN start
    ELSE Find(str, c, start + 1)

\* str.rfind(c): the last position holding c, 0 if none
RECURSIVE RFindFrom(_, _, _)
RFindFrom(str, c, from) ==
    IF from < 1 THEN 0
    ELSE IF str[from] = c THEN from
    ELSE RFindFrom(str, c, from - 1)

RFind(str, c) == RFindFrom(str, c, Len(str))

\* c in str
Contains(str, c) == Find(str, c, 1) > 0

\* str[a:b] with 1-based inclusive ends; empty when a > b
Slice(str, a, b) == IF a > b THEN << >> ELSE SubSeq(str, a, b)

LowerLetters ==
    << "a", "b", "c", "d", "e", "f", "g", "h", "i", "j", "k", "l", "m",
       "n", "o", "p", "q", "r", "s", "t", "u", "v", "w", "x", "y", "z" >>

UpperLetters ==
    << "A", "B", "C", "D", "E", "F", "G", "H", "I", "J", "K", "L", "M",
       "N", "O", "P", "Q", "R", "S", "T", "U", "V", "W", "X", "Y", "Z" >>

Digits == << "0", "1", "2", "3", "4", "5", "6", "7", "8", "9" >>

Range(seq) == { seq[j] : j \in 1..Len(seq) }

\* c.isascii() and c.isalpha()
IsAsciiAlpha(c) == c \in Range(LowerLetters) \cup Range(UpperLetters)

\* str.lower(), one character
LowerChar(c) ==
    IF c \in Range(UpperLetters)
    THEN LowerLetters[Find(UpperLetters, c, 1)]
    ELSE c

Lower(str) == [ j \in 1..Len(str) |-> LowerChar(str[j]) ]

\* ------------------------------------------------ urllib.parse (CPython 3.11)
scheme_chars ==
    Range(LowerLetters) \cup Range(UpperLetters) \cup Range(Digits)
      \cup { "+", "-", "." }

uses_params ==
    { << >>,
      << "f", "t", "p" >>,
      << "h", "d", "l" >>,
      << "p", "r", "o", "s", "p", "e", "r", "o" >>,
      << "h", "t", "t", "p" >>,
      << "i", "m", "a", "p" >>,
      << "h", "t", "t", "p", "s" >>,
      << "s", "h", "t", "t", "p" >>,
      << "r", "t", "s", "p" >>,
      << "r", "t", "s", "p", "s" >>,
      << "r", "t", "s", "p", "u" >>,
      << "s", "i", "p" >>,
      << "s", "i", "p", "s" >>,
      << "m", "m", "s" >>,
      << "s", "f", "t", "p" >>,
      << "t", "e", "l" >> }

\* the characters str.lstrip strips in urlsplit that the inputs here can hold
WHATWG_C0_CONTROL_OR_SPACE == { " ", "\t", "\n", "\r" }

UNSAFE_URL_BYTES_TO_REMOVE == { "\t", "\r", "\n" }

RECURSIVE LStrip(_)
LStrip(url) ==
    IF url # << >> /\ Head(url) \in WHATWG_C0_CONTROL_OR_SPACE
    THEN LStrip(Tail(url))
    ELSE url

RemoveUnsafe(url) == SelectSeq(url, LAMBDA c : c \notin UNSAFE_URL_BYTES_TO_REMOVE)

\* _splitnetloc(url, 2) for a url that starts with "//": the position of the
\* first of "/?#" after the two slashes, Len(url) + 1 if there is none
RECURSIVE NetlocEnd(_, _)
NetlocEnd(url, from) ==
    IF from > Len(url) THEN Len(url) + 1
    ELSE IF url[from] \in { "/", "?", "#" } THEN from
    ELSE NetlocEnd(url, from + 1)

\* urlsplit works through the url from the left; `rest` is what is still to
\* be split.  The scheme: url[:i].lower() when the text before the first ":"
\* starts with a letter and holds scheme characters only.
SplitScheme(url) ==
    IF /\ Find(url, ":", 1) > 1
       /\ IsAsciiAlpha(url[1])
       /\ \A j \in 1..(Find(url, ":", 1) - 1) : url[j] \in scheme_chars
    THEN [ scheme |-> Lower(Slice(url, 1, Find(url, ":", 1) - 1)),
           rest   |-> Slice(url, Find(url, ":", 1) + 1, Len(url)) ]
    ELSE [ scheme |-> << >>, rest |-> url ]

\* if url[:2] == '//': netloc, url = _splitnetloc(url, 2)
SplitNetloc(r) ==
    IF Len(r.rest) >= 2 /\ r.rest[1] = "/" /\ r.rest[2] = "/"
    THEN [ scheme |-> r.scheme,
           netloc |-> Slice(r.rest, 3, NetlocEnd(r.rest, 3) - 1),
           rest   |-> Slice(r.rest, NetlocEnd(r.rest, 3), Len(r.rest)) ]
    ELSE [ scheme |-> r.scheme, netloc |-> << >>, rest |-> r.rest ]

\* if '#' in url: url, fragment = url.split('#', 1)
SplitFragment(r) ==
    IF Contains(r.rest, "#")
    THEN [ scheme   |-> r.scheme,
           netloc   |-> r.netloc,
           fragment |-> Slice(r.rest, Find(r.rest, "#", 1) + 1, Len(r.rest)),
           rest     |-> Slice(r.rest, 1, Find(r.rest, "#", 1) - 1) ]
    ELSE [ scheme |-> r.scheme, netloc |-> r.netloc, fragment |-> << >>, rest |-> r.rest ]

\* if '?' in url: url, query = url.split('?', 1)
\* ok = FALSE is the ValueError("Invalid IPv6 URL") of a netloc with an
\* unmatched bracket
SplitQuery(r) ==
    [ ok       |-> Contains(r.netloc, "[") = Contains(r.netloc, "]"),
      scheme   |-> r.scheme,
      netloc   |-> r.netloc,
      path     |-> IF Contains(r.rest, "?")
                   THEN Slice(r.rest, 1, Find(r.rest, "?", 1) - 1)
                   ELSE r.rest,
      query    |-> IF Contains(r.rest, "?")
                   THEN Slice(r.rest, Find(r.rest, "?", 1) + 1, Len(r.rest))
                   ELSE << >>,
      fragment |-> r.fragment ]

\* urlsplit(url): [ok, scheme, netloc, path, query, fragment]
urlsplit(url) ==
    SplitQuery(SplitFragment(SplitNetloc(SplitScheme(RemoveUnsafe(LStrip(url))))))

\* _splitparams(url): <<path, params>>
splitparams(url) ==
    LET i == IF Contains(url, "/")
             THEN Find(url, ";", RFind(url, "/"))
             ELSE Find(url, ";", 1)
    IN  IF i = 0 THEN << url, << >> >>
        ELSE << Slice(url, 1, i - 1), Slice(url, i + 1, Len(url)) >>

\* if scheme in uses_params and ';' in url: url, params = _splitparams(url)
SplitParams(r) ==
    [ ok       |-> r.ok,
      scheme   |-> r.scheme,
      netloc   |-> r.netloc,
      path     |-> IF r.scheme \in uses_params /\ Contains(r.path, ";")
                   THEN splitparams(r.path)[1]
                   ELSE r.path,
      params   |-> IF r.scheme \in uses_params /\ Contains(r.path, ";")
                   THEN splitparams(r.path)[2]
                   ELSE << >>,
      query    |-> r.query,
      fragment |-> r.fragment ]

\* urlparse(url) for a str url
urlparse_str(url) == SplitParams(urlsplit(url))

\* --------------------------------------------------------- JSON values
\* A value met as a field of a record: its Python type, its len() and, for a
\* str, its characters.  "absent" is a key the dict does not hold.
Str(chars) == [ t |-> "str", n |-> Len(chars), s |-> chars ]
List(n)    == [ t |-> "list", n |-> n, s |-> << >> ]
Dict(n)    == [ t |-> "dict", n |-> n, s |-> << >> ]
Num(n)     == [ t |-> "num", n |-> n, s |-> << >> ]
Null       == [ t |-> "null", n |-> 0, s |-> << >> ]
Absent     == [ t |-> "absent", n |-> 0, s |-> << >> ]

\* An element of the input: a dict with its `file` and `cases` entries, or a
\* value of another type (t), whose file and cases are Absent.
Rec(file, cases) == [ t |-> "dict", file |-> file, cases |-> cases ]
Elem(type)       == [ t |-> type, file |-> Absent, cases |-> Absent ]

\* bbb.json: missing, not JSON, or a JSON value; `items` is what iterating the
\* value yields (the elements of a list, the keys of a dict, the characters of
\* a str)
Doc(type, items) == [ t |-> type, items |-> items ]
Unbound          == Doc("unbound", << >>)

\* -------------------------------------------------------------- inputs
UrlA     == << "h", "t", "t", "p", ":", "/", "/", "x", "/", "a" >>
UrlA2    == << "w", "s", ":", "/", "/", "y", "/", "a", "?", "q", "#", "f" >>
UrlB     == << "H", "T", "T", "P", ":", "/", "/", "x", "/", "b", ";", "p" >>
UrlB2    == << "w", "s", ":", "/", "/", "y", "/", "b", ";", "p" >>
UrlRel   == << "/", "a" >>
UrlBad   == << "h", "t", "t", "p", ":", "/", "/", "[", "x", "/", "a" >>

URLs == { UrlA, UrlA2, UrlB, UrlB2, UrlRel }

\* records with a str `file` that parses and a list `cases`
WellFormed == { Rec(Str(u), List(n)) : u \in URLs, n \in 0..MaxCases }

IsWellFormed(v) ==
    /\ v.t = "dict"
    /\ v.file.t = "str"
    /\ v.cases.t = "list"
    /\ urlparse_str(v.file.s).ok

\* records and elements that are not well formed
MissingField == { Rec(Absent, List(1)), Rec(Str(UrlA), Absent), Rec(Absent, Absent) }

BadCases ==
    { Rec(Str(UrlA), c) : c \in { Str(<< "a", "b" >>), Str(<< >>), Dict(1), Num(1), Null } }

BadFile == { Rec(f, List(1)) : f \in { Null, Num(1), Str(UrlBad) } }

NonDict == { Elem(type) : type \in { "num", "str", "null", "list" } }

Elements == WellFormed \cup MissingField \cup BadCases \cup BadFile \cup NonDict

RECURSIVE SeqsUpTo(_, _)
SeqsUpTo(S, n) ==
    IF n = 0 THEN { << >> }
    ELSE LET shorter == SeqsUpTo(S, n - 1)
         IN  shorter \cup { Append(q, x) : q \in { r \in shorter : Len(r) = n - 1 }, x \in S }

Docs ==
    { Doc("list", q) : q \in SeqsUpTo(Elements, MaxRecords) }
      \cup { Doc("dict", q) : q \in SeqsUpTo({ Elem("str") }, 1) }
      \cup { Doc("str", q) : q \in SeqsUpTo({ Elem("str") }, 1) }
      \cup { Doc(type, << >>) : type \in { "num", "null", "nofile", "badjson" } }

\* ------------------------------------------------------ Python dict
\* count is a dict: its entries in insertion order
Keys(d) == { d[j].k : j \in 1..Len(d) }

IndexOf(d, k) == IF k \in Keys(d) THEN CHOOSE j \in 1..Len(d) : d[j].k = k ELSE 0

\* d.get(k, default)
Get(d, k, default) == IF k \in Keys(d) THEN d[IndexOf(d, k)].v ELSE default

\* d[k] = v
Set(d, k, v) ==
    IF k \in Keys(d)
    THEN [ d EXCEPT ![IndexOf(d, k)].v = v ]
    ELSE Append(d, [ k |-> k, v |-> v ])

\* a str key, and the bytes key b'' that urlparse gives for a falsy non-str
StrKey(chars) == [ b |-> FALSE, s |-> chars ]
BytesKey      == [ b |-> TRUE, s |-> << >> ]

\* ------------------------------------------------------ the loop body
Raise(exc)  == [ exc |-> exc, key |-> BytesKey, n |-> 0 ]
Value(k, n) == [ exc |-> "", key |-> k, n |-> n ]

\* bool(x) of a JSON value
Truthy(x) == x.n # 0

\* v.get(name): a missing key raises nothing
SubscriptGet(v, name) ==
    IF v.t # "dict" THEN Raise("TypeError") ELSE Value(BytesKey, 0)

\* v["file"], v["cases"]: the entry, or the exception
Subscript(v, name) ==
    IF v.t # "dict" THEN Raise("TypeError")
    ELSE IF (IF name = "file" THEN v.file ELSE v.cases) = Absent THEN Raise("KeyError")
    ELSE Value(BytesKey, 0)

\* a key that keeps the host: urlparse(x).netloc + urlparse(x).path
urlparse_netloc_path(x) ==
    IF x.t = "str"
    THEN LET r == urlparse_str(x.s)
         IN  IF r.ok THEN Value(StrKey(r.netloc \o r.path), 0) ELSE Raise("ValueError")
    ELSE IF Truthy(x) THEN Raise("AttributeError")
    ELSE Value(BytesKey, 0)

\* urlparse(x).path: the key, or the exception
\* (_coerce_args decodes a falsy non-str to '' and answers in bytes; a truthy
\* non-str has no decode())
urlparse_path(x) ==
    IF x.t = "str"
    THEN LET r == urlparse_str(x.s)
         IN  IF r.ok THEN Value(StrKey(r.path), 0) ELSE Raise("ValueError")
    ELSE IF Truthy(x) THEN Raise("AttributeError")
    ELSE Value(BytesKey, 0)

\* line 8: k = urlparse(v["file"]).path
KeyOf(v) ==
    IF Subscript(v, "file").exc # "" THEN Subscript(v, "file")
    ELSE urlparse_path(v.file)

\* len(x)
PyLen(x) ==
    IF x.t \in { "list", "str", "dict" } THEN Value(BytesKey, x.n)
    ELSE Raise("TypeError")

\* len(v["cases"])
LenCases(v) ==
    IF Subscript(v, "cases").exc # "" THEN Subscript(v, "cases")
    ELSE PyLen(v.cases)

\* count[k] = len(v["cases"]): the earlier count of the key is lost
AccumulateOverwrite(d, k, n) == Set(d, k, n)

\* line 9: count[k] = count.get(k, 0) + len(v["cases"])
Accumulate(d, k, n) == Set(d, k, Get(d, k, 0) + n)

\* the body without lines 10-11
NoFloorFix(d, k, n) == d

\* count[k] += 1 for every record
FloorAlways(d, k, n) == Set(d, k, Get(d, k, 0) + 1)

\* lines 10-11: if len(v["cases"]) == 0: count[k] += 1
FloorFix(d, k, n) == IF n = 0 THEN Set(d, k, Get(d, k, 0) + 1) ELSE d

\* lines 8-11 on one element: the exception raised, or the new table
ProcessRecord(d, v) ==
    LET k == KeyOf(v)
        n == LenCases(v)
    IN  IF k.exc # "" THEN [ exc |-> k.exc, count |-> d ]
        ELSE IF n.exc # "" THEN [ exc |-> n.exc, count |-> d ]
        ELSE [ exc |-> "", count |-> FloorFix(Accumulate(d, k.key, n.n), k.key, n.n) ]

\* ------------------------------------------------------ out.json
\* the text of a file, as the tokens json.dump writes
LBrace     == [ tok |-> "{", k |-> BytesKey, v |-> 0 ]
RBrace     == [ tok |-> "}", k |-> BytesKey, v |-> 0 ]
Item(e)    == [ tok |-> "item", k |-> e.k, v |-> e.v ]
NoFile     == [ exists |-> FALSE, text |-> << >> ]
File(text) == [ exists |-> TRUE, text |-> text ]

\* the first entry json.dump cannot write (a key that is no str), 0 if none
FirstBadKey(d) ==
    IF \E j \in 1..Len(d) : d[j].k.b
    THEN CHOOSE j \in 1..Len(d) : d[j].k.b /\ \A h \in 1..(j - 1) : ~d[h].k.b
    ELSE 0

\* json.dump(count, f): what reaches the file, and whether it raised
json_dump(d) ==
    LET bad     == FirstBadKey(d)
        written == IF bad = 0 THEN d ELSE SubSeq(d, 1, bad - 1)
        items   == [ j \in 1..Len(written) |-> Item(written[j]) ]
    IN  [ exc  |-> IF bad = 0 THEN "" ELSE "TypeError",
          text |-> << LBrace >> \o items \o (IF bad = 0 THEN << RBrace >> ELSE << >>) ]

\* open("out.json", "a"): what the file holds is kept
open_a(file) == File(file.text)

\* open("out.json", "w"): the file is created or truncated
open_w(file) == File(<< >>)

\* lines 13-14
WriteOut(file, d) == File(open_w(file).text \o json_dump(d).text)

\* ------------------------------------------------------ the program
VARIABLES
    doc,    \* bbb.json
    out,    \* out.json
    pc,     \* "start", "scan", "write", "done", "failed"
    s,      \* the loaded document
    count,  \* the Count Table
    i,      \* how many elements the for loop has taken
    err,    \* the exception that ended the run, "" if none
    phase,  \* where the run was when it failed: "", "load", "scan", "write"
    opens,  \* how many times this run has opened out.json for writing
    run     \* which launch of the script this is

vars == << doc, out, pc, s, count, i, err, phase, opens, run >>

Init ==
    /\ doc \in Docs
    /\ out = NoFile
    /\ pc = "start"
    /\ s = Unbound
    /\ count = << >>
    /\ i = 0
    /\ err = ""
    /\ phase = ""
    /\ opens = 0
    /\ run = 1

Fail(exc, where) ==
    /\ pc' = "failed"
    /\ err' = exc
    /\ phase' = where

\* for v in s: whether s can be iterated
Iterable(x) == x.t \in { "list", "dict", "str" }

\* a loop that stops after its first element
ExhaustedEarly(x, n) == n >= Len(x.items) \/ n >= 1

\* the iterator of the for loop has no next element
Exhausted(x, n) == n >= Len(x.items)

\* lines 3-6: with open("bbb.json") as f: s = json.load(f); count = {}
Load ==
    /\ pc = "start"
    /\ IF doc.t = "nofile"
       THEN Fail("OSError", "load") /\ UNCHANGED << s, count >>
       ELSE IF doc.t = "badjson"
       THEN Fail("JSONDecodeError", "load") /\ UNCHANGED << s, count >>
       ELSE /\ s' = doc
            /\ count' = << >>
            /\ pc' = "scan"
            /\ UNCHANGED << err, phase >>
    /\ UNCHANGED << doc, out, i, opens, run >>

\* lines 7-11: the for loop takes the next element and runs the body on it
Step ==
    /\ pc = "scan"
    /\ IF ~Iterable(s)
       THEN Fail("TypeError", "scan") /\ UNCHANGED << count, i >>
       ELSE /\ ~Exhausted(s, i)
            /\ LET r == ProcessRecord(count, s.items[i + 1])
               IN  /\ i' = i + 1
                   /\ count' = r.count
                   /\ IF r.exc # ""
                      THEN Fail(r.exc, "scan")
                      ELSE UNCHANGED << pc, err, phase >>
    /\ UNCHANGED << doc, out, s, opens, run >>

\* line 7: the for loop ends
EndScan ==
    /\ pc = "scan"
    /\ Iterable(s)
    /\ Exhausted(s, i)
    /\ pc' = "write"
    /\ UNCHANGED << doc, out, s, count, i, err, phase, opens, run >>

\* lines 13-14: with open("out.json", "w") as f: json.dump(count, f)
\* (writable: whether the open succeeds)
Write ==
    /\ pc = "write"
    /\ \E writable \in BOOLEAN :
         IF ~writable
         THEN Fail("OSError", "write") /\ UNCHANGED << out, opens >>
         ELSE /\ out' = WriteOut(out, count)
              /\ opens' = opens + 1
              /\ IF json_dump(count).exc # ""
                 THEN Fail(json_dump(count).exc, "write")
                 ELSE pc' = "done" /\ UNCHANGED << err, phase >>
    /\ UNCHANGED << doc, s, count, i, run >>

\* the process has ended and the script is launched again on the same bbb.json
Rerun ==
    /\ pc \in { "done", "failed" }
    /\ run < MaxRuns
    /\ run' = run + 1
    /\ pc' = "start"
    /\ s' = Unbound
    /\ count' = << >>
    /\ i' = 0
    /\ err' = ""
    /\ phase' = ""
    /\ opens' = 0
    /\ UNCHANGED << doc, out >>

Next == Load \/ Step \/ EndScan \/ Write

Spec == Init /\ [][Next]_vars

NextRuns == Next \/ Rerun

SpecRuns == Init /\ [][NextRuns]_vars

\* ------------------------------------------------------ what the claims read
\* the key and the increment a record stands for
ExpectKey(v) ==
    IF v.file.t = "str" THEN StrKey(urlparse_str(v.file.s).path) ELSE BytesKey

Weight(v) == IF v.cases.n = 0 THEN 1 ELSE v.cases.n

\* the sum of the increments of the first n elements whose key is k
RECURSIVE ExpectedSum(_, _, _)
ExpectedSum(items, k, n) ==
    IF n = 0 THEN 0
    ELSE ExpectedSum(items, k, n - 1)
           + (IF ExpectKey(items[n]) = k THEN Weight(items[n]) ELSE 0)

RECURSIVE SumValues(_, _)
SumValues(d, n) == IF n = 0 THEN 0 ELSE SumValues(d, n - 1) + d[n].v

\* the text of a complete dump of d
Dumped(d) == << LBrace >> \o [ j \in 1..Len(d) |-> Item(d[j]) ] \o << RBrace >>

AllWellFormed == s.t = "list" /\ \A j \in 1..Len(s.items) : IsWellFormed(s.items[j])

\* the elements the loop body has run on without raising
Completed == IF pc = "failed" /\ phase = "scan" /\ i > 0 THEN i - 1 ELSE i

\* a dict that lacks `file` or lacks `cases`
LacksField(v) == v.t = "dict" /\ (v.file = Absent \/ v.cases = Absent)

\* a dict whose `cases` is there and is no list
CasesNotList(v) == v.t = "dict" /\ v.cases.t \notin { "list", "absent" }

\* C1: when a run on well-formed records completes, the table holds exactly
\* the paths of the records, each with the sum of its records' increments
\* (1 for an empty cases list, its length otherwise), and out.json holds that
\* table; for the empty array the table is empty and out.json holds {}.
C1_CountIsSum ==
    (pc = "done" /\ AllWellFormed) =>
        /\ i = Len(s.items)
        /\ Keys(count) = { ExpectKey(s.items[j]) : j \in 1..Len(s.items) }
        /\ Len(count) = Cardinality(Keys(count))
        /\ \A k \in Keys(count) : Get(count, k, 0) = ExpectedSum(s.items, k, Len(s.items))
        /\ out = File(Dumped(count))
        /\ (s.items = << >> => count = << >> /\ out.text = << LBrace, RBrace >>)

\* two records of one path, [a, b] and [], make one entry of 3
C1_Witness ==
    /\ pc = "done"
    /\ AllWellFormed
    /\ Len(s.items) = 2
    /\ s.items[1].cases.n = 2
    /\ s.items[2].cases.n = 0
    /\ count = << [ k |-> StrKey(<< "/", "a" >>), v |-> 3 ] >>

\* the table of a sequence of (path, number of cases) pairs
RECURSIVE TableOfPathCases(_)
TableOfPathCases(pairs) ==
    IF pairs = << >> THEN << >>
    ELSE LET d == TableOfPathCases(SubSeq(pairs, 1, Len(pairs) - 1))
             p == pairs[Len(pairs)]
         IN  Set(d, StrKey(p.path), Get(d, StrKey(p.path), 0) + (IF p.n = 0 THEN 1 ELSE p.n))

PathCases(v) == [ path |-> urlparse_str(v.file.s).path, n |-> v.cases.n ]

C3_WriteAfterScan ==
    /\ (opens > 0 \/ out # NoFile) =>
           /\ Iterable(s)
           /\ i = Len(s.items)
           /\ pc \in { "done", "failed" }
           /\ phase \in { "", "write" }
    /\ (pc = "failed" /\ phase \in { "load", "scan" }) => (opens = 0 /\ out = NoFile)
    /\ pc = "write" => (Iterable(s) /\ i = Len(s.items) /\ opens = 0)

\* the second of two records raises: a table of one entry is in memory and
\* nothing is on disk
C3_Witness ==
    /\ pc = "failed"
    /\ phase = "scan"
    /\ i = 2
    /\ Len(count) = 1
    /\ out = NoFile
    /\ opens = 0

\* C4: a record that lacks `file` or `cases` ends the run at that record with
\* a KeyError and the table as it was, no later element is taken and out.json
\* is not written.
C4_MissingFieldFails ==
    [][ /\ (pc = "scan" /\ Iterable(s) /\ i < Len(s.items) /\ LacksField(s.items[i + 1])) =>
            /\ pc' = "failed"
            /\ err' = "KeyError"
            /\ phase' = "scan"
            /\ count' = count
            /\ out' = out
            /\ opens' = 0
        /\ (pc = "failed" /\ phase = "scan") => (i' = i /\ pc' = "failed" /\ out' = out)
      ]_vars

\* the second record lacks `cases`: the run has failed there, the entry of
\* the first record is untouched
C4_Witness ==
    /\ pc = "failed"
    /\ err = "KeyError"
    /\ i = 2
    /\ s.items[1] = Rec(Str(UrlA), List(2))
    /\ s.items[2] = Rec(Str(UrlA), Absent)
    /\ count = << [ k |-> StrKey(<< "/", "a" >>), v |-> 2 ] >>
    /\ out = NoFile

\* C5 (as claimed): once the loop has taken a record whose `cases` is there
\* and is no list, the run has failed and out.json is not written.
C5_NonSequenceCasesFail ==
    (s.t = "list" /\ i >= 1 /\ CasesNotList(s.items[i])) =>
        (pc = "failed" /\ out = NoFile)

\* C6 (as claimed): a run on a document that is no array of objects never
\* completes and never writes out.json.
C6_NonArrayFails ==
    (\/ doc.t \in { "dict", "str", "num", "null" }
     \/ (doc.t = "list" /\ \E j \in 1..Len(doc.items) : doc.items[j].t # "dict")) =>
        (pc # "done" /\ out = NoFile)

\* C7: a later run on the same bbb.json that completes writes into out.json
\* what the earlier run left there: nothing of the earlier run is added.
C7_RerunSameOutput ==
    [][ (pc = "write" /\ pc' = "done" /\ run > 1 /\ out.exists) => out' = out ]_vars

\* the second run has completed with a table of two entries
C7_Witness ==
    /\ run = 2
    /\ pc = "done"
    /\ Len(count) = 2
    /\ out = File(Dumped(count))

\* C8: the table is empty when the scan starts; a record of key k and n cases
\* raises the entry of k by n, by 1 when n = 0, an absent entry counting as 0,
\* and leaves the other entries as they were; no step lowers a value or
\* removes a key.
C8_OnlyKeyRaised ==
    [][ /\ (pc = "start" /\ pc' = "scan") => count' = << >>
        /\ (pc = "scan" /\ pc' = "scan" /\ i' = i + 1) =>
              LET v == s.items[i + 1]
                  k == ExpectKey(v)
              IN  /\ Get(count', k, 0) = Get(count, k, 0) + Weight(v)
                  /\ Keys(count') = Keys(count) \cup { k }
                  /\ \A h \in Keys(count) \ { k } : Get(count', h, 0) = Get(count, h, 0)
        /\ \A h \in Keys(count) : h \in Keys(count') /\ Get(count', h, 0) >= Get(count, h, 0)
      ]_vars

\* after [a, b] under /a and [] under /b (its params cut off)
C8_Witness ==
    /\ pc = "scan"
    /\ i = 2
    /\ count = << [ k |-> StrKey(<< "/", "a" >>), v |-> 2 ],
                  [ k |-> StrKey(<< "/", "b" >>), v |-> 1 ] >>

\* C9 (as claimed): a run that has ended has either completed with out.json
\* written once, or failed with out.json not written.
C9_EndsWrittenOnceOrUnwritten ==
    pc \in { "done", "failed" } =>
        \/ pc = "done" /\ opens = 1 /\ out = File(Dumped(count)) /\ i = Len(s.items)
        \/ pc = "failed" /\ opens = 0 /\ out = NoFile

\* the steps a run still has to take, at most
RunVariant ==
    CASE pc = "start" -> Len(doc.items) + 3
      [] pc = "scan"  -> (Len(s.items) - i) + 2
      [] pc = "write" -> 1
      [] OTHER        -> 0

\* every step of a run brings its end nearer, and takes the loop one element on
\* or leaves it where it is
C9_EveryStepAdvances ==
    [][ RunVariant' < RunVariant /\ RunVariant' >= 0 /\ i' \in { i, i + 1 } ]_vars

\* C10: after each record the keys of the table are the paths of the records
\* processed so far, every value is at least 1 and the values add up to at
\* least the number of those records; a completed dump holds that table.
C10_KeysAndValues ==
    /\ Keys(count) = { ExpectKey(s.items[j]) : j \in 1..Completed }
    /\ Len(count) = Cardinality(Keys(count))
    /\ \A j \in 1..Len(count) : count[j].v >= 1
    /\ SumValues(count, Len(count)) >= Completed
    /\ pc = "done" => out = File(Dumped(count))

\* two records with no cases under two paths
C10_Witness ==
    /\ pc = "scan"
    /\ i = 2
    /\ s.items[1].cases.n = 0
    /\ s.items[2].cases.n = 0
    /\ count = << [ k |-> StrKey(<< "/", "a" >>), v |-> 1 ],
                  [ k |-> StrKey(<< "/", "b", ";", "p" >>), v |-> 1 ] >>
====
